---- MODULE Spec2Model ----
(***************************************************************************)
(* Mind-Chat: the conversation history store (app/history.py), and the     *)
(* main window that coordinates the per-mode stores with the background    *)
(* completion worker (app/ui/main_window.py, app/ui/workers.py).           *)
(*                                                                         *)
(* Timestamps are ISO-8601 strings of second precision; a string is        *)
(* modelled by the number of its second (1, 2, ...), and BadStamp is a     *)
(* string datetime.fromisoformat rejects.  Conversation ids are uuid4      *)
(* values, modelled by the order of their allocation (1, 2, ...); None is  *)
(* 0.  app/models.py is not part of the sources at hand: Conversation and  *)
(* ChatMessage follow the data model of the specification.                 *)
(***************************************************************************)
EXTENDS Integers, Sequences, FiniteSets, TLC

\* ------------------------------------------------------------------ bounds
\* AppConfig.max_conversations / max_favorites, scaled down (60 and 50 in
\* config.py; the relation max_favorites < max_conversations is kept).
max_conversations == 2
max_favorites == 1
\* the clock takes the values 1..MaxTime
MaxTime == 2
\* uuids that can be allocated
MaxIds == 3
\* messages a store can hold, over all its conversations
MaxMsgs == 1
\* user messages submitted to the main window
MaxTurns == 2
\* messages in a history given to generate_reply
MaxHistory == 3
\* upsert may push a store one conversation past max_conversations
MaxLen == max_conversations + 1

None == 0
BadStamp == -1

Modes == {"mind_chat", "plain_chat"}
default_mode_key == "mind_chat"
Roles == {"user", "assistant"}
Contents == {"hi"}

VARIABLES
    history_managers,   \* mode key -> [conversations, file] (HistoryManager)
    now,                \* the wall clock, in seconds
    next_id,            \* the next uuid Conversation() draws
    last,               \* the last call or handler: which, and the exception
                        \* or early return that ended it ("none": it ran through)
    \* MainWindow
    active_mode_key,            \* _active_mode_key
    current_conversation_ids,   \* _current_conversation_ids: mode key -> id or None
    llm_client,                 \* whether LocalLLM(config) could be built
    llm,                        \* LocalLLM.generate_reply: the arguments of the call and
                                \* what _build_prompt made of them
    worker_thread,              \* whether _worker_thread holds a QThread
    thread_running,             \* isRunning() of the QThread started last
    workers,                    \* the LLMWorkers whose run() has not emitted yet
    events,                     \* slot calls queued to the main thread by worker signals
    busy,                       \* _set_busy: send button, history panel, mode selector disabled
    panel,                      \* HistoryPanel: the ids listed and the current item
    turns                       \* user messages submitted so far

ui_vars == <<active_mode_key, current_conversation_ids, llm_client, llm, worker_thread,
             thread_running, workers, events, busy, panel, turns>>

vars == <<history_managers, now, next_id, last, ui_vars>>

\* ------------------------------------------------------------ data model
ChatMessage(role, content) == [role |-> role, content |-> content]

NoMessage == [role |-> "none", content |-> ""]

\* Conversation(): a fresh id, no messages, not a favorite, both stamps now.
Conversation(id, t) ==
    [conversation_id |-> id, messages |-> <<>>, is_favorite |-> FALSE,
     created_at |-> t, updated_at |-> t]

\* Conversation.append_message: the message goes last, updated_at is refreshed.
Conversation_append_message(c, message, t) ==
    [c EXCEPT !.messages = Append(@, message), !.updated_at = t]

\* Conversation.title: the first user message's content, else the placeholder.
title(c) ==
    LET users == SelectSeq(c.messages, LAMBDA m : m.role = "user")
    IN  IF users = <<>> THEN "new conversation" ELSE users[1].content

to_dict(c) ==
    [conversation_id |-> c.conversation_id, title |-> title(c),
     messages |-> c.messages, is_favorite |-> c.is_favorite,
     created_at |-> c.created_at, updated_at |-> c.updated_at]

from_dict(d) ==
    [conversation_id |-> d.conversation_id, messages |-> d.messages,
     is_favorite |-> d.is_favorite, created_at |-> d.created_at,
     updated_at |-> d.updated_at]

\* ------------------------------------------------------- list primitives
RemoveAt(s, i) == SubSeq(s, 1, i - 1) \o SubSeq(s, i + 1, Len(s))

IdsOf(cs) == [i \in 1..Len(cs) |-> cs[i].conversation_id]

RECURSIVE TotalMessages(_)
TotalMessages(cs) ==
    IF cs = <<>> THEN 0 ELSE Len(Head(cs).messages) + TotalMessages(Tail(cs))

\* --------------------------------------------- HistoryManager: helpers
_parse_iso(value) == IF value = BadStamp THEN 0 ELSE value

_timestamp_key(conversation) == _parse_iso(conversation.updated_at)

\* the index of the first conversation with that id; None when there is none
_find_conversation(cs, conversation_id) ==
    LET hits == {i \in 1..Len(cs) : cs[i].conversation_id = conversation_id}
    IN  IF hits = {} THEN None ELSE CHOOSE i \in hits : \A j \in hits : i <= j

\* (mutant) the conversation stays where it is
_promote_to_top_stays(cs, i) == cs

\* (mutant) the conversation changes places with the first one
_promote_to_top_swaps(cs, i) ==
    [k \in 1..Len(cs) |-> IF k = 1 THEN cs[i] ELSE IF k = i THEN cs[1] ELSE cs[k]]

\* i is the index of the conversation object in the list
_promote_to_top(cs, i) ==
    IF i = 1 THEN cs ELSE <<cs[i]>> \o RemoveAt(cs, i)

\* (mutant) the filter keeps the favorites instead of the others
_oldest_non_favorite_inverted(cs) ==
    LET candidates == {i \in 1..Len(cs) : cs[i].is_favorite}
    IN  IF candidates = {} THEN None
        ELSE CHOOSE i \in candidates :
                \A j \in candidates :
                    \/ _timestamp_key(cs[i]) < _timestamp_key(cs[j])
                    \/ _timestamp_key(cs[i]) = _timestamp_key(cs[j]) /\ i <= j

\* (mutant) of equally old candidates the last one is taken
_oldest_non_favorite_last(cs) ==
    LET candidates == {i \in 1..Len(cs) : ~cs[i].is_favorite}
    IN  IF candidates = {} THEN None
        ELSE CHOOSE i \in candidates :
                \A j \in candidates :
                    \/ _timestamp_key(cs[i]) < _timestamp_key(cs[j])
                    \/ _timestamp_key(cs[i]) = _timestamp_key(cs[j]) /\ i >= j

\* min(candidates, key=...): the first of the candidates with the least key
_oldest_non_favorite(cs) ==
    LET candidates == {i \in 1..Len(cs) : ~cs[i].is_favorite}
    IN  IF candidates = {} THEN None
        ELSE CHOOSE i \in candidates :
                \A j \in candidates :
                    \/ _timestamp_key(cs[i]) < _timestamp_key(cs[j])
                    \/ _timestamp_key(cs[i]) = _timestamp_key(cs[j]) /\ i <= j

RECURSIVE _enforce_limits(_)
_enforce_limits(cs) ==
    IF Len(cs) > max_conversations
    THEN LET oldest == _oldest_non_favorite(cs)
         IN  IF oldest = None THEN cs ELSE _enforce_limits(RemoveAt(cs, oldest))
    ELSE cs

favorite_count(cs) == Cardinality({i \in 1..Len(cs) : cs[i].is_favorite})

\* list.sort(key=_timestamp_key, reverse=True): descending, equal keys keep
\* the order they had
RECURSIVE sort_reverse(_)
sort_reverse(cs) ==
    IF cs = <<>> THEN <<>>
    ELSE LET head == Head(cs)
             rest == sort_reverse(Tail(cs))
             newer == SelectSeq(rest, LAMBDA c : _timestamp_key(c) > _timestamp_key(head))
             other == SelectSeq(rest, LAMBDA c : _timestamp_key(c) <= _timestamp_key(head))
         IN  newer \o <<head>> \o other

\* The text of the history file.  json says what json.loads makes of it:
\* "array" is a JSON array of conversation objects (items); "empty" is the
\* empty text and "malformed" a text that is not JSON (both raise
\* JSONDecodeError); "number" is valid JSON that is not an array, such as 42.
\* "missing" is the file that does not exist.
JsonArray(items) == [json |-> "array", items |-> items]
Missing == [json |-> "missing", items |-> <<>>]
EmptyText == [json |-> "empty", items |-> <<>>]
Malformed == [json |-> "malformed", items |-> <<>>]
JsonNumber == [json |-> "number", items |-> <<>>]

\* json.dumps of the list of dicts, written over the file
_persist(S) ==
    [S EXCEPT !.file =
        JsonArray([i \in 1..Len(S.conversations) |-> to_dict(S.conversations[i])])]

\* json.loads(text), with JSONDecodeError replaced by []
payload_of(text) ==
    IF text.json \in {"empty", "malformed"} THEN JsonArray(<<>>) ELSE text

\* "for item in payload" raises TypeError when the payload is a number
_load_from_disk_raises(S) == payload_of(S.file).json = "number"

\* the manager _load_from_disk leaves when it raises nothing
_load_from_disk(S) ==
    [S EXCEPT !.conversations =
        sort_reverse([i \in 1..Len(payload_of(S.file).items) |->
                        from_dict(payload_of(S.file).items[i])])]

\* ---------------------------------------- HistoryManager: the public API
\* A call ends by returning (raised = "none", ret = the conversation's id)
\* or by raising; store is the manager's state when it ends.
Return(S, ret) == [store |-> S, raised |-> "none", ret |-> ret]
Raise(S, exc) == [store |-> S, raised |-> exc, ret |-> None]

create_conversation(S, conversation) ==
    LET inserted == <<conversation>> \o S.conversations
        limited == _enforce_limits(inserted)
    IN  Return(_persist([S EXCEPT !.conversations = limited]),
               conversation.conversation_id)

append_message(S, conversation_id, message) ==
    LET i == _find_conversation(S.conversations, conversation_id)
    IN  IF i = None THEN Raise(S, "ConversationNotFoundError")
        ELSE LET appended == [S.conversations EXCEPT
                                ![i] = Conversation_append_message(@, message, now)]
                 promoted == _promote_to_top(appended, i)
             IN  Return(_persist([S EXCEPT !.conversations = promoted]),
                        conversation_id)

\* (mutant) the last message is removed whatever its role
remove_trailing_user_message_any(S, conversation_id) ==
    LET i == _find_conversation(S.conversations, conversation_id)
    IN  IF i = None THEN Raise(S, "ConversationNotFoundError")
        ELSE LET c == S.conversations[i]
             IN  IF c.messages # <<>>
                 THEN LET popped == [c EXCEPT
                                        !.messages = SubSeq(@, 1, Len(@) - 1),
                                        !.updated_at = now]
                      IN  Return(_persist([S EXCEPT !.conversations[i] = popped]),
                                 conversation_id)
                 ELSE Return(S, conversation_id)

\* (mutant) the removal is not written to the file
remove_trailing_user_message_unsaved(S, conversation_id) ==
    LET i == _find_conversation(S.conversations, conversation_id)
    IN  IF i = None THEN Raise(S, "ConversationNotFoundError")
        ELSE LET c == S.conversations[i]
             IN  IF c.messages # <<>> /\ c.messages[Len(c.messages)].role = "user"
                 THEN LET popped == [c EXCEPT
                                        !.messages = SubSeq(@, 1, Len(@) - 1),
                                        !.updated_at = now]
                      IN  Return([S EXCEPT !.conversations[i] = popped], conversation_id)
                 ELSE Return(S, conversation_id)

\* (mutant) the first message is removed, not the last
remove_trailing_user_message_first(S, conversation_id) ==
    LET i == _find_conversation(S.conversations, conversation_id)
    IN  IF i = None THEN Raise(S, "ConversationNotFoundError")
        ELSE LET c == S.conversations[i]
             IN  IF c.messages # <<>> /\ c.messages[Len(c.messages)].role = "user"
                 THEN LET popped == [c EXCEPT !.messages = Tail(@),
                                              !.updated_at = now]
                      IN  Return(_persist([S EXCEPT !.conversations[i] = popped]),
                                 conversation_id)
                 ELSE Return(S, conversation_id)

remove_trailing_user_message(S, conversation_id) ==
    LET i == _find_conversation(S.conversations, conversation_id)
    IN  IF i = None THEN Raise(S, "ConversationNotFoundError")
        ELSE LET c == S.conversations[i]
             IN  IF c.messages # <<>> /\ c.messages[Len(c.messages)].role = "user"
                 THEN LET popped == [c EXCEPT
                                        !.messages = SubSeq(@, 1, Len(@) - 1),
                                        !.updated_at = now]
                      IN  Return(_persist([S EXCEPT !.conversations[i] = popped]),
                                 conversation_id)
                 ELSE Return(S, conversation_id)

\* (mutant) the toggle leaves updated_at as it was
toggle_favorite_keeps_stamp(S, conversation_id) ==
    LET i == _find_conversation(S.conversations, conversation_id)
    IN  IF i = None THEN Raise(S, "ConversationNotFoundError")
        ELSE LET target_state == ~S.conversations[i].is_favorite
             IN  IF target_state /\ favorite_count(S.conversations) >= max_favorites
                 THEN Raise(S, "FavoriteLimitError")
                 ELSE LET toggled == [S.conversations EXCEPT
                                        ![i].is_favorite = target_state]
                      IN  Return(_persist([S EXCEPT !.conversations =
                                      _enforce_limits(_promote_to_top(toggled, i))]),
                                 conversation_id)

\* (mutant) the flag is set before the limit is looked at
toggle_favorite_sets_first(S, conversation_id) ==
    LET i == _find_conversation(S.conversations, conversation_id)
    IN  IF i = None THEN Raise(S, "ConversationNotFoundError")
        ELSE LET target_state == ~S.conversations[i].is_favorite
                 toggled == [S.conversations EXCEPT
                                ![i].is_favorite = target_state,
                                ![i].updated_at = now]
             IN  IF target_state /\ favorite_count(S.conversations) >= max_favorites
                 THEN Raise([S EXCEPT !.conversations = toggled], "FavoriteLimitError")
                 ELSE Return(_persist([S EXCEPT !.conversations =
                                 _enforce_limits(_promote_to_top(toggled, i))]),
                             conversation_id)

toggle_favorite(S, conversation_id) ==
    LET i == _find_conversation(S.conversations, conversation_id)
    IN  IF i = None THEN Raise(S, "ConversationNotFoundError")
        ELSE LET target_state == ~S.conversations[i].is_favorite
             IN  IF target_state /\ favorite_count(S.conversations) >= max_favorites
                 THEN Raise(S, "FavoriteLimitError")
                 ELSE LET toggled == [S.conversations EXCEPT
                                        ![i].is_favorite = target_state,
                                        ![i].updated_at = now]
                          promoted == _promote_to_top(toggled, i)
                          limited == _enforce_limits(promoted)
                      IN  Return(_persist([S EXCEPT !.conversations = limited]),
                                 conversation_id)

\* (mutant) a favorite is not removed
delete_conversation_spares_favorites(S, conversation_id) ==
    LET i == _find_conversation(S.conversations, conversation_id)
    IN  IF i = None THEN Raise(S, "ConversationNotFoundError")
        ELSE IF S.conversations[i].is_favorite THEN Return(S, None)
        ELSE Return(_persist([S EXCEPT !.conversations = RemoveAt(@, i)]), None)

delete_conversation(S, conversation_id) ==
    LET i == _find_conversation(S.conversations, conversation_id)
    IN  IF i = None THEN Raise(S, "ConversationNotFoundError")
        ELSE Return(_persist([S EXCEPT !.conversations = RemoveAt(@, i)]), None)

\* (mutant) the conversation is inserted whether its id is stored or not
upsert_conversation_inserts(S, conversation) ==
    Return(_persist([S EXCEPT !.conversations = <<conversation>> \o @]), None)

\* (mutant) the replaced conversation is moved to the top
upsert_conversation_promotes(S, conversation) ==
    LET index == _find_conversation(S.conversations, conversation.conversation_id)
    IN  IF index # None
        THEN Return(_persist([S EXCEPT !.conversations =
                        _promote_to_top([@ EXCEPT ![index] = conversation], index)]), None)
        ELSE Return(_persist([S EXCEPT !.conversations = <<conversation>> \o @]), None)

upsert_conversation(S, conversation) ==
    LET index == _find_conversation(S.conversations, conversation.conversation_id)
    IN  IF index # None
        THEN Return(_persist([S EXCEPT !.conversations[index] = conversation]), None)
        ELSE Return(_persist([S EXCEPT !.conversations = <<conversation>> \o @]), None)

\* HistoryManager.__init__ over a history file that does not exist yet
NewHistoryManager == _load_from_disk([conversations |-> <<>>, file |-> JsonArray(<<>>)])

\* HistoryManager.__init__ over a file with that text: a missing file is
\* written as "[]" first; the exception _load_from_disk raises leaves
\* __init__, and no manager is built.
HistoryManager_init(text) ==
    LET S == [conversations |-> <<>>,
              file |-> IF text.json = "missing" THEN JsonArray(<<>>) ELSE text]
    IN  IF _load_from_disk_raises(S) THEN Raise(S, "TypeError")
        ELSE Return(_load_from_disk(S), None)

get_conversation(S, conversation_id) ==
    LET i == _find_conversation(S.conversations, conversation_id)
    IN  IF i = None THEN Raise(S, "ConversationNotFoundError")
        ELSE Return(S, conversation_id)

\* ------------------------------------------------- the store on its own
\* One HistoryManager, called directly.
TheStore == default_mode_key

store == history_managers[TheStore]

Ids == 1..MaxIds

\* a manager was built: the last start-up did not end in an exception
Constructed == last.op = "load" => last.raised = "none"

StoreCall(op, result) ==
    /\ Constructed
    /\ history_managers' = [history_managers EXCEPT ![TheStore] = result.store]
    /\ last' = [op |-> op, raised |-> result.raised]

Tick ==
    /\ now < MaxTime
    /\ now' = now + 1
    /\ UNCHANGED <<history_managers, next_id, last, ui_vars>>

Create ==
    /\ next_id <= MaxIds
    /\ StoreCall("create", create_conversation(store, Conversation(next_id, now)))
    /\ next_id' = next_id + 1
    /\ UNCHANGED <<now, ui_vars>>

AppendMessage(id, message) ==
    /\ id < next_id
    /\ TotalMessages(store.conversations) < MaxMsgs
    /\ StoreCall("append", append_message(store, id, message))
    /\ UNCHANGED <<now, next_id, ui_vars>>

ToggleFavorite(id) ==
    /\ id < next_id
    /\ StoreCall("toggle", toggle_favorite(store, id))
    /\ UNCHANGED <<now, next_id, ui_vars>>

\* append_message on a store that may hold a conversation of several turns
AppendTurn(id, message) ==
    /\ id < next_id
    /\ TotalMessages(store.conversations) < MaxTurns
    /\ StoreCall("append", append_message(store, id, message))
    /\ UNCHANGED <<now, next_id, ui_vars>>

RemoveTrailingUserMessage(id) ==
    /\ id < next_id
    /\ StoreCall("remove", remove_trailing_user_message(store, id))
    /\ UNCHANGED <<now, next_id, ui_vars>>

Delete(id) ==
    /\ id < next_id
    /\ StoreCall("delete", delete_conversation(store, id))
    /\ UNCHANGED <<now, next_id, ui_vars>>

\* The conversations a caller hands to upsert: one it built itself, or an
\* edited copy of a stored one.
UpsertStamps == {now}

Upserted ==
    {[conversation_id |-> id, messages |-> <<>>, is_favorite |-> fav,
      created_at |-> now, updated_at |-> stamp] :
        id \in 1..next_id, fav \in BOOLEAN, stamp \in UpsertStamps}

Upsert(conversation) ==
    /\ conversation.conversation_id <= MaxIds
    /\ \/ _find_conversation(store.conversations, conversation.conversation_id) # None
       \/ Len(store.conversations) < MaxLen
    /\ StoreCall("upsert", upsert_conversation(store, conversation))
    /\ next_id' = IF conversation.conversation_id = next_id THEN next_id + 1 ELSE next_id
    /\ UNCHANGED <<now, ui_vars>>

\* the process ends, the file is left with that text, and a new
\* HistoryManager is built over it
Startup(text) ==
    /\ history_managers' =
            [history_managers EXCEPT ![TheStore] = HistoryManager_init(text).store]
    /\ last' = [op |-> "load", raised |-> HistoryManager_init(text).raised]
    /\ UNCHANGED <<now, next_id, ui_vars>>

\* the process ends and a new HistoryManager is built over the same file
Restart ==
    /\ history_managers' =
            [history_managers EXCEPT ![TheStore] = HistoryManager_init(store.file).store]
    /\ last' = [op |-> "load", raised |-> HistoryManager_init(store.file).raised]
    /\ UNCHANGED <<now, next_id, ui_vars>>

\* what the file can hold when the process starts, beside what the last
\* process wrote
Texts == {Missing, EmptyText, Malformed, JsonNumber}

Get(id) ==
    /\ id < next_id
    /\ StoreCall("get", get_conversation(store, id))
    /\ UNCHANGED <<now, next_id, ui_vars>>

Messages == {ChatMessage(role, content) : role \in Roles, content \in Contents}

\* generate_reply has not been called
NoCall == [pc |-> "idle", history |-> <<>>, system_prompt |-> "",
           messages |-> <<>>, chat_messages |-> <<>>]

\* the main window at rest
Idle ==
    /\ active_mode_key = default_mode_key
    /\ current_conversation_ids = [k \in Modes |-> None]
    /\ llm_client = FALSE
    /\ worker_thread = FALSE
    /\ thread_running = FALSE
    /\ workers = <<>>
    /\ events = <<>>
    /\ busy = FALSE
    /\ panel = [ids |-> <<>>, current |-> None]
    /\ turns = 0

\* the main window is not there: its variables keep these values
NoWindow ==
    /\ llm = NoCall
    /\ Idle

InitStore ==
    /\ history_managers = [k \in Modes |-> NewHistoryManager]
    /\ now = 1
    /\ next_id = 1
    /\ last = [op |-> "init", raised |-> "none"]
    /\ NoWindow

\* create / appendMessage / toggleFavorite only
NextCore ==
    \/ Tick
    \/ Create
    \/ \E id \in Ids, message \in Messages : AppendMessage(id, message)
    \/ \E id \in Ids : ToggleFavorite(id)
SpecCore == InitStore /\ [][NextCore]_vars

\* the calls the main window makes: the above and the undo of a user turn
NextTurns ==
    \/ Tick
    \/ Create
    \/ \E id \in Ids, message \in Messages : AppendMessage(id, message)
    \/ \E id \in Ids : ToggleFavorite(id)
    \/ \E id \in Ids : RemoveTrailingUserMessage(id)
SpecTurns == InitStore /\ [][NextTurns]_vars

\* the process is started over files of every kind
NextLoad ==
    \/ Tick
    \/ Create
    \/ \E id \in Ids : ToggleFavorite(id)
    \/ \E text \in Texts : Startup(text)
    \/ Restart
SpecLoad == InitStore /\ [][NextLoad]_vars

\* every operation of the store
NextStore ==
    \/ Tick
    \/ Create
    \/ \E id \in Ids, message \in Messages : AppendMessage(id, message)
    \/ \E id \in Ids : ToggleFavorite(id)
    \/ \E id \in Ids : RemoveTrailingUserMessage(id)
    \/ \E id \in Ids : Delete(id)
    \/ \E id \in Ids : Get(id)
    \/ \E conversation \in Upserted : Upsert(conversation)
    \/ Restart
SpecStore == InitStore /\ [][NextStore]_vars

\* the operations that write the store, on conversations of up to MaxTurns
\* messages
NextMessages ==
    \/ Tick
    \/ Create
    \/ \E id \in Ids, message \in Messages : AppendTurn(id, message)
    \/ \E id \in Ids : RemoveTrailingUserMessage(id)
    \/ \E id \in Ids : ToggleFavorite(id)
    \/ \E id \in Ids : Delete(id)
    \/ \E conversation \in Upserted : Upsert(conversation)
    \/ Restart
SpecMessages == InitStore /\ [][NextMessages]_vars

\* ---------------------------------------------------------- MainWindow
\* What a handler reads and writes: the active mode's HistoryManager and
\* current id, the panel, the busy flag and the worker.  ended is how the
\* handler ended: "none", the exception that left it, or the early return
\* it took.
Window(mode) ==
    [mode |-> mode,
     store |-> history_managers[mode],
     active |-> current_conversation_ids[mode],
     panel |-> panel,
     busy |-> busy,
     workers |-> workers,
     worker_thread |-> worker_thread,
     thread_running |-> thread_running,
     next_id |-> next_id,
     ended |-> "none"]

\* ConversationMode.system_prompt of the two modes
system_prompt(mode) == IF mode = "mind_chat" THEN "S" ELSE ""

UserText == "hi"
Response == "ok"

\* LLMWorker.__init__: list(messages) is a copy taken now
LLMWorker(messages, prompt) == [messages |-> messages, system_prompt |-> prompt]

\* set_conversations keeps the current item when its id is still listed and
\* otherwise makes row 0 current, whose selection signal loads that
\* conversation; then the target (select_id, else the item current before,
\* else the active id) is selected when it is listed, and becomes the
\* active id whether it is listed or not.
_refresh_history_panel(w, select_id) ==
    LET ids == IdsOf(w.store.conversations)
        current_before == w.panel.current
        kept == \E i \in 1..Len(ids) : ids[i] = current_before
        row0 == ~kept /\ ids # <<>>
        current1 == IF kept THEN current_before ELSE IF row0 THEN ids[1] ELSE None
        active1 == IF row0 THEN ids[1] ELSE w.active
        target_id == IF select_id # None THEN select_id
                     ELSE IF current_before # None THEN current_before
                     ELSE active1
        found == \E i \in 1..Len(ids) : ids[i] = target_id
        current2 == IF target_id # None /\ current1 # target_id /\ found
                    THEN target_id ELSE current1
        active2 == IF target_id # None THEN target_id ELSE active1
    IN  [w EXCEPT !.panel = [ids |-> ids, current |-> current2], !.active = active2]

_load_conversation(w, conversation_id) ==
    IF _find_conversation(w.store.conversations, conversation_id) = None
    THEN [w EXCEPT !.ended = "warning"]
    ELSE [w EXCEPT !.active = conversation_id]

_handle_new_conversation(w) ==
    LET r == create_conversation(w.store, Conversation(w.next_id, now))
    IN  _refresh_history_panel(
            [w EXCEPT !.store = r.store, !.next_id = @ + 1, !.active = r.ret], r.ret)

_toggle_favorite(w, conversation_id) ==
    LET r == toggle_favorite(w.store, conversation_id)
    IN  IF r.raised # "none" THEN [w EXCEPT !.ended = r.raised]
        ELSE _refresh_history_panel([w EXCEPT !.store = r.store], r.ret)

\* (mutant) a worker is started although the thread of the last one runs
_request_llm_response_unguarded(w, messages) ==
    IF ~llm_client THEN [w EXCEPT !.busy = FALSE, !.ended = "no client"]
    ELSE [w EXCEPT !.workers = Append(@, LLMWorker(messages, system_prompt(w.mode))),
                   !.worker_thread = TRUE, !.thread_running = TRUE]

_request_llm_response(w, messages) ==
    IF ~llm_client THEN [w EXCEPT !.busy = FALSE, !.ended = "no client"]
    ELSE IF w.worker_thread /\ w.thread_running THEN [w EXCEPT !.ended = "refused"]
    ELSE [w EXCEPT !.workers = Append(@, LLMWorker(messages, system_prompt(w.mode))),
                   !.worker_thread = TRUE, !.thread_running = TRUE]

\* (mutant) the window is not made busy for the time of the request
_handle_user_message_not_busy(w, text) ==
    LET w0 == IF w.active = None THEN _handle_new_conversation(w) ELSE w
        conversation_id == w0.active
    IN  IF conversation_id = None THEN w0
        ELSE LET r == append_message(w0.store, conversation_id, ChatMessage("user", text))
             IN  IF r.raised # "none" THEN [w0 EXCEPT !.ended = r.raised]
                 ELSE LET conversation ==
                              r.store.conversations[
                                  _find_conversation(r.store.conversations, r.ret)]
                          shown == _refresh_history_panel([w0 EXCEPT !.store = r.store], r.ret)
                      IN  _request_llm_response(shown, conversation.messages)

_handle_user_message(w, text) ==
    LET w0 == IF w.active = None THEN _handle_new_conversation(w) ELSE w
        conversation_id == w0.active
    IN  IF conversation_id = None THEN w0
        ELSE LET r == append_message(w0.store, conversation_id, ChatMessage("user", text))
             IN  IF r.raised # "none" THEN [w0 EXCEPT !.ended = r.raised]
                 ELSE LET conversation ==
                              r.store.conversations[
                                  _find_conversation(r.store.conversations, r.ret)]
                          shown == _refresh_history_panel([w0 EXCEPT !.store = r.store], r.ret)
                      IN  _request_llm_response([shown EXCEPT !.busy = TRUE],
                                                conversation.messages)

_handle_llm_success(w, response) ==
    IF w.active = None THEN [w EXCEPT !.busy = FALSE]
    ELSE LET r == append_message(w.store, w.active, ChatMessage("assistant", response))
         IN  IF r.raised # "none" THEN [w EXCEPT !.ended = r.raised]
             ELSE _refresh_history_panel(
                      [w EXCEPT !.store = r.store, !.active = r.ret, !.busy = FALSE], r.ret)

\* (mutant) the failure is written into the conversation as a reply
_handle_llm_failure_replies(w) ==
    IF w.active = None THEN [w EXCEPT !.busy = FALSE]
    ELSE LET r == append_message(w.store, w.active, ChatMessage("assistant", Response))
         IN  IF r.raised # "none" THEN [w EXCEPT !.ended = r.raised]
             ELSE [_refresh_history_panel([w EXCEPT !.store = r.store], r.ret)
                     EXCEPT !.busy = FALSE]

_handle_llm_failure(w) ==
    IF w.active = None THEN [w EXCEPT !.busy = FALSE]
    ELSE LET r == remove_trailing_user_message(w.store, w.active)
         IN  IF r.raised # "none" THEN [w EXCEPT !.ended = r.raised]
             ELSE [_refresh_history_panel([w EXCEPT !.store = r.store], r.ret)
                     EXCEPT !.busy = FALSE]

_ensure_active_mode_ready(w) ==
    IF w.active # None THEN w
    ELSE IF w.store.conversations # <<>>
    THEN [w EXCEPT !.active = w.store.conversations[1].conversation_id]
    ELSE LET r == create_conversation(w.store, Conversation(w.next_id, now))
         IN  [w EXCEPT !.store = r.store, !.next_id = @ + 1, !.active = r.ret]

\* the part _bootstrap_conversation and _handle_mode_change share
_bootstrap_conversation(w) ==
    LET ready == _ensure_active_mode_ready(w)
        conversation_id == ready.active
        shown == _refresh_history_panel(ready, conversation_id)
    IN  IF conversation_id # None THEN _load_conversation(shown, conversation_id) ELSE shown

_handle_mode_change(mode_key) == _bootstrap_conversation(Window(mode_key))

\* the handler has run to its end (or to the exception that left it)
Handled(op, w) ==
    /\ active_mode_key' = w.mode
    /\ history_managers' = [history_managers EXCEPT ![w.mode] = w.store]
    /\ current_conversation_ids' = [current_conversation_ids EXCEPT ![w.mode] = w.active]
    /\ panel' = w.panel
    /\ busy' = w.busy
    /\ workers' = w.workers
    /\ worker_thread' = w.worker_thread
    /\ thread_running' = w.thread_running
    /\ next_id' = w.next_id
    /\ last' = [op |-> op, raised |-> w.ended]

\* ---- what the user does; a disabled widget emits nothing
NewConversationClicked ==
    /\ ~busy
    /\ next_id <= MaxIds
    /\ Handled("_handle_new_conversation", _handle_new_conversation(Window(active_mode_key)))
    /\ UNCHANGED <<now, llm_client, llm, events, turns>>

ConversationSelected(id) ==
    /\ ~busy
    /\ \E i \in 1..Len(panel.ids) : panel.ids[i] = id
    /\ id # panel.current
    /\ Handled("_load_conversation",
               _load_conversation([Window(active_mode_key) EXCEPT !.panel.current = id], id))
    /\ UNCHANGED <<now, llm_client, llm, events, turns>>

FavoriteClicked ==
    /\ ~busy
    /\ panel.current # None
    /\ Handled("_toggle_favorite", _toggle_favorite(Window(active_mode_key), panel.current))
    /\ UNCHANGED <<now, llm_client, llm, events, turns>>

MessageSubmitted ==
    /\ ~busy
    /\ turns < MaxTurns
    /\ current_conversation_ids[active_mode_key] = None => next_id <= MaxIds
    /\ Handled("_handle_user_message", _handle_user_message(Window(active_mode_key), UserText))
    /\ turns' = turns + 1
    /\ UNCHANGED <<now, llm_client, llm, events>>

ModeChanged(mode_key) ==
    /\ ~busy
    /\ mode_key # active_mode_key
    /\ (current_conversation_ids[mode_key] = None
            /\ history_managers[mode_key].conversations = <<>>) => next_id <= MaxIds
    /\ Handled("_handle_mode_change", _handle_mode_change(mode_key))
    /\ UNCHANGED <<now, llm_client, llm, events, turns>>

\* ---- the worker thread: run() ends and emits finished or failed; the
\* slots connected to the signal are queued to the main thread in the order
\* of their connection
Emitted(slot) == <<slot, "quit", "_cleanup_worker">>

LLMWorkerRun ==
    /\ workers # <<>>
    /\ workers' = Tail(workers)
    /\ \/ events' = events \o Emitted("_handle_llm_success")
       \/ events' = events \o Emitted("_handle_llm_failure")
    /\ UNCHANGED <<history_managers, now, next_id, last, active_mode_key,
                   current_conversation_ids, llm_client, llm, worker_thread, thread_running,
                   busy, panel, turns>>

\* ---- the main thread takes the next queued slot call
HandleLLMSuccess ==
    /\ events # <<>> /\ Head(events) = "_handle_llm_success"
    /\ Handled("_handle_llm_success", _handle_llm_success(Window(active_mode_key), Response))
    /\ events' = Tail(events)
    /\ UNCHANGED <<now, llm_client, llm, turns>>

HandleLLMFailure ==
    /\ events # <<>> /\ Head(events) = "_handle_llm_failure"
    /\ Handled("_handle_llm_failure", _handle_llm_failure(Window(active_mode_key)))
    /\ events' = Tail(events)
    /\ UNCHANGED <<now, llm_client, llm, turns>>

\* QThread.quit: the thread's event loop returns and the thread ends
ThreadQuit ==
    /\ events # <<>> /\ Head(events) = "quit"
    /\ thread_running' = FALSE
    /\ events' = Tail(events)
    /\ UNCHANGED <<history_managers, now, next_id, last, active_mode_key,
                   current_conversation_ids, llm_client, llm, worker_thread, workers,
                   busy, panel, turns>>

CleanupWorker ==
    /\ events # <<>> /\ Head(events) = "_cleanup_worker"
    /\ worker_thread' = FALSE
    /\ events' = Tail(events)
    /\ UNCHANGED <<history_managers, now, next_id, last, active_mode_key,
                   current_conversation_ids, llm_client, llm, thread_running, workers,
                   busy, panel, turns>>

\* MainWindow.__init__ over history files that do not exist yet; LocalLLM
\* may or may not have been built
InitWindow ==
    /\ now = 1
    /\ llm_client \in BOOLEAN
    /\ llm = NoCall
    /\ events = <<>>
    /\ turns = 0
    /\ LET w == _bootstrap_conversation(
                    [mode |-> default_mode_key, store |-> NewHistoryManager,
                     active |-> None, panel |-> [ids |-> <<>>, current |-> None],
                     busy |-> FALSE, workers |-> <<>>, worker_thread |-> FALSE,
                     thread_running |-> FALSE, next_id |-> 1, ended |-> "none"])
       IN  /\ active_mode_key = w.mode
           /\ history_managers = [k \in Modes |->
                                    IF k = w.mode THEN w.store ELSE NewHistoryManager]
           /\ current_conversation_ids = [k \in Modes |->
                                            IF k = w.mode THEN w.active ELSE None]
           /\ panel = w.panel
           /\ busy = w.busy
           /\ workers = w.workers
           /\ worker_thread = w.worker_thread
           /\ thread_running = w.thread_running
           /\ next_id = w.next_id
           /\ last = [op |-> "_bootstrap_conversation", raised |-> w.ended]

NextWindow ==
    \/ Tick
    \/ NewConversationClicked
    \/ \E id \in Ids : ConversationSelected(id)
    \/ FavoriteClicked
    \/ MessageSubmitted
    \/ \E mode_key \in Modes : ModeChanged(mode_key)
    \/ LLMWorkerRun
    \/ HandleLLMSuccess
    \/ HandleLLMFailure
    \/ ThreadQuit
    \/ CleanupWorker
SpecWindow == InitWindow /\ [][NextWindow]_vars

\* The window with what its scheduling guarantees: a started worker runs to
\* its end and emits a result (the completion terminates), and the event
\* loop of the main thread delivers every queued signal.  Nothing makes the
\* user act.
FairWindow ==
    /\ WF_vars(LLMWorkerRun)
    /\ WF_vars(HandleLLMSuccess)
    /\ WF_vars(HandleLLMFailure)
    /\ WF_vars(ThreadQuit)
    /\ WF_vars(CleanupWorker)
SpecWindowFair == SpecWindow /\ FairWindow

\* ------------------------------------------------------------- LocalLLM
\* A message as llm_client.py reads it: role, content and created_at.
StampedMessage(role, content, created_at) ==
    [role |-> role, content |-> content, created_at |-> created_at]

\* str.strip(): blanks and line ends are taken off both ends
Whitespace == {" ", "\n", "\t"}

RECURSIVE rstrip(_)
rstrip(text) ==
    IF text # "" /\ SubSeq(text, Len(text), Len(text)) \in Whitespace
    THEN rstrip(SubSeq(text, 1, Len(text) - 1))
    ELSE text

RECURSIVE lstrip(_)
lstrip(text) ==
    IF text # "" /\ SubSeq(text, 1, 1) \in Whitespace
    THEN lstrip(SubSeq(text, 2, Len(text)))
    ELSE text

strip(text) == lstrip(rstrip(text))

\* The loop of _normalize_messages over message objects.  messages are the
\* objects of the argument as they are by now, i is the position the loop
\* has come to, and normalized is the list built so far; an entry of it is
\* an object with its value (message) and, when the object is one of the
\* argument's own, its position there (self; None for an object the loop
\* built).  An assignment to last.content reaches the argument when last
\* is one of its objects.
\* (mutant) the messages of the argument are put into the list themselves
RECURSIVE normalize_in_place_from(_, _, _)
normalize_in_place_from(messages, i, normalized) ==
    IF i > Len(messages) THEN [messages |-> messages, normalized |-> normalized]
    ELSE LET n == Len(normalized)
         IN  IF n = 0 \/ normalized[n].message.role # messages[i].role
             THEN normalize_in_place_from(messages, i + 1,
                      Append(normalized, [message |-> messages[i], self |-> i]))
             ELSE LET content == normalized[n].message.content \o "\n\n"
                                    \o messages[i].content
                  IN  normalize_in_place_from(
                          IF normalized[n].self = None THEN messages
                          ELSE [messages EXCEPT ![normalized[n].self].content = content],
                          i + 1,
                          [normalized EXCEPT ![n].message.content = content])

RECURSIVE normalize_from(_, _, _)
normalize_from(messages, i, normalized) ==
    IF i > Len(messages) THEN [messages |-> messages, normalized |-> normalized]
    ELSE LET message == messages[i]
             clone == [message |-> StampedMessage(message.role, message.content,
                                                  message.created_at),
                       self |-> None]
             n == Len(normalized)
         IN  IF n = 0
             THEN normalize_from(messages, i + 1, <<clone>>)
             ELSE IF normalized[n].message.role = clone.message.role
             THEN LET content == normalized[n].message.content \o "\n\n"
                                    \o clone.message.content
                  IN  normalize_from(
                          IF normalized[n].self = None THEN messages
                          ELSE [messages EXCEPT ![normalized[n].self].content = content],
                          i + 1,
                          [normalized EXCEPT ![n].message.content = content])
             ELSE normalize_from(messages, i + 1, Append(normalized, clone))

\* (mutant) a message is merged into the one before it only when that one
\* has not been merged into yet
RECURSIVE normalize_pairs_from(_, _, _)
normalize_pairs_from(messages, normalized, merged) ==
    IF messages = <<>> THEN normalized
    ELSE LET clone == Head(messages)
         IN  IF normalized # <<>> /\ ~merged
                  /\ normalized[Len(normalized)].role = clone.role
             THEN normalize_pairs_from(Tail(messages),
                     [normalized EXCEPT
                        ![Len(normalized)].content = @ \o "\n\n" \o clone.content],
                     TRUE)
             ELSE normalize_pairs_from(Tail(messages), Append(normalized, clone), FALSE)

_normalize_messages_pairs(messages) == normalize_pairs_from(messages, <<>>, FALSE)

\* the list _normalize_messages returns
_normalize_messages(messages) ==
    IF messages = <<>> THEN <<>>
    ELSE LET normalized == normalize_from(messages, 1, <<>>).normalized
         IN  [n \in 1..Len(normalized) |-> normalized[n].message]

\* the messages of the argument as _normalize_messages leaves them
_normalize_messages_leaves(messages) ==
    IF messages = <<>> THEN <<>> ELSE normalize_from(messages, 1, <<>>).messages

\* the dict _build_prompt makes of a message
chat_dict(message) == [role |-> message.role, content |-> message.content]

\* (mutant) a first turn of the assistant is left without the instruction
_build_prompt_skips_assistant(history, prompt) ==
    LET messages == _normalize_messages(history)
        dicts(ms) == [i \in 1..Len(ms) |-> chat_dict(ms[i])]
    IN  IF prompt # "" /\ messages = <<>>
        THEN <<[role |-> "user", content |-> prompt]>>
        ELSE IF prompt # "" /\ messages[1].role = "user"
        THEN <<[role |-> "user",
                content |-> strip(prompt \o "\n\n" \o messages[1].content)]>>
             \o dicts(Tail(messages))
        ELSE dicts(messages)

\* (mutant) without an instruction the history is passed on as it came
_build_prompt_raw(history, prompt) ==
    LET messages == _normalize_messages(history)
        dicts(ms) == [i \in 1..Len(ms) |-> chat_dict(ms[i])]
    IN  IF prompt # ""
        THEN IF messages = <<>>
             THEN <<[role |-> "user", content |-> prompt]>>
             ELSE IF messages[1].role = "user"
             THEN <<[role |-> "user",
                     content |-> strip(prompt \o "\n\n" \o messages[1].content)]>>
                  \o dicts(Tail(messages))
             ELSE <<[role |-> "user", content |-> prompt]>> \o dicts(messages)
        ELSE dicts(history)

\* (mutant) the instruction is always a turn of its own
_build_prompt_prepends(history, prompt) ==
    LET messages == _normalize_messages(history)
        dicts(ms) == [i \in 1..Len(ms) |-> chat_dict(ms[i])]
    IN  IF prompt # ""
        THEN <<[role |-> "user", content |-> prompt]>> \o dicts(messages)
        ELSE dicts(messages)

\* system_prompt is a str or None; None is the empty text here, which
\* "if system_prompt" takes the same way
_build_prompt(history, prompt) ==
    LET messages == _normalize_messages(history)
        dicts(ms) == [i \in 1..Len(ms) |-> chat_dict(ms[i])]
    IN  IF prompt # ""
        THEN IF messages = <<>>
             THEN <<[role |-> "user", content |-> prompt]>>
             ELSE IF messages[1].role = "user"
             THEN <<[role |-> "user",
                     content |-> strip(prompt \o "\n\n" \o messages[1].content)]>>
                  \o dicts(Tail(messages))
             ELSE <<[role |-> "user", content |-> prompt]>> \o dicts(messages)
        ELSE dicts(messages)

\* the histories and system prompts generate_reply is called with
PromptContents == {"a", "b", "c", ""}
SystemPrompts == {"", "S"}

Histories ==
    UNION {[1..n -> {StampedMessage(role, content, 1) :
                        role \in Roles, content \in PromptContents}] : n \in 0..MaxHistory}

\* generate_reply up to the call of the model: the prompt is built
GenerateReply ==
    /\ llm.pc = "called"
    /\ llm' = [llm EXCEPT !.pc = "built",
                          !.history = _normalize_messages_leaves(llm.history),
                          !.messages = _normalize_messages(llm.history),
                          !.chat_messages = _build_prompt(llm.history, llm.system_prompt)]
    /\ UNCHANGED <<history_managers, now, next_id, last, active_mode_key,
                   current_conversation_ids, llm_client, worker_thread, thread_running,
                   workers, events, busy, panel, turns>>

InitPrompt ==
    /\ history_managers = [k \in Modes |-> NewHistoryManager]
    /\ now = 1
    /\ next_id = 1
    /\ last = [op |-> "init", raised |-> "none"]
    /\ Idle
    /\ \E history \in Histories, prompt \in SystemPrompts :
          llm = [pc |-> "called", history |-> history, system_prompt |-> prompt,
                 messages |-> <<>>, chat_messages |-> <<>>]

NextPrompt == GenerateReply
SpecPrompt == InitPrompt /\ [][NextPrompt]_vars

\* ------------------------------------------------------------- the claims
Present(id) == _find_conversation(store.conversations, id) # None

NonFavorites(cs) == {i \in 1..Len(cs) : ~cs[i].is_favorite}

\* C1: through create / appendMessage / toggleFavorite the collection is
\* never longer than max_conversations unless all its conversations are
\* favorites.
C1_LengthWithinLimit ==
    Len(store.conversations) > max_conversations
        => NonFavorites(store.conversations) = {}

\* create has just run on a full store and one conversation had to go
C1_Witness ==
    /\ last.op = "create"
    /\ Len(store.conversations) = max_conversations
    /\ next_id > max_conversations + 1

\* C2 (as claimed): the favorites never outnumber max_favorites in a state
\* the store operations reach, and a toggleFavorite that would take them
\* past it raises FavoriteLimitError and leaves the store as it was.
C2_FavoritesWithinLimit ==
    /\ [](favorite_count(store.conversations) <= max_favorites)
    /\ [][\A id \in Ids :
            (/\ last'.op = "toggle"
             /\ ToggleFavorite(id)
             /\ Present(id)
             /\ ~store.conversations[_find_conversation(store.conversations, id)].is_favorite
             /\ favorite_count(store.conversations) >= max_favorites)
            => /\ last'.raised = "FavoriteLimitError"
               /\ history_managers' = history_managers]_vars

\* C3 (as claimed): the conversation create() returns is empty, not a
\* favorite, and at position 0 of list() when the call returns.
C3_CreatedAtTop ==
    last.op = "create" =>
        /\ store.conversations # <<>>
        /\ store.conversations[1] = Conversation(next_id - 1, store.conversations[1].created_at)

\* C4: capacity enforcement removes only non-favorites, each time the one
\* with the oldest updated_at and of equally old ones the one of lowest
\* index; no favorite leaves the store through create, appendMessage or
\* toggleFavorite; with max_conversations = 2 and non-favorites A (older),
\* B (newer), create() of C leaves [C, B].
C4_EvictsOldestNonFavorite ==
    [][/\ \A i \in 1..Len(store.conversations) :
            store.conversations[i].is_favorite
                => _find_conversation(store'.conversations,
                                      store.conversations[i].conversation_id) # None
       /\ (last'.op = "create" /\ Create) =>
            LET inserted == <<Conversation(next_id, now)>> \o store.conversations
            IN  IF Len(inserted) <= max_conversations
                THEN store'.conversations = inserted
                ELSE \E r \in NonFavorites(inserted) :
                        /\ store'.conversations = RemoveAt(inserted, r)
                        /\ \A j \in NonFavorites(inserted) :
                              /\ _timestamp_key(inserted[r]) <= _timestamp_key(inserted[j])
                              /\ _timestamp_key(inserted[r]) = _timestamp_key(inserted[j])
                                    => r <= j
       /\ (/\ last'.op = "create"
           /\ Create
           /\ max_conversations = 2
           /\ Len(store.conversations) = 2
           /\ NonFavorites(store.conversations) = {1, 2}
           /\ _timestamp_key(store.conversations[2]) < _timestamp_key(store.conversations[1]))
          => IdsOf(store'.conversations) = <<next_id, store.conversations[1].conversation_id>>
      ]_vars

\* create has just evicted a non-favorite while an older favorite stayed
C4_Witness ==
    /\ last.op = "create"
    /\ Len(store.conversations) = max_conversations
    /\ next_id > max_conversations + 1
    /\ \E i \in 1..Len(store.conversations) :
          /\ store.conversations[i].is_favorite
          /\ \A j \in NonFavorites(store.conversations) :
                _timestamp_key(store.conversations[i]) < _timestamp_key(store.conversations[j])

C6_ReloadKeepsOrder ==
    IdsOf(_load_from_disk(store).conversations) = IdsOf(store.conversations)

Outstanding ==
    \/ workers # <<>>
    \/ \E i \in 1..Len(events) : events[i] \in {"_handle_llm_success", "_handle_llm_failure"}

EndsWithUserTurn(c) ==
    c.messages # <<>> /\ c.messages[Len(c.messages)].role = "user"

\* C8: whenever no completion is outstanding, no stored conversation ends
\* with a user turn that has no reply: a turn whose completion failed or
\* could not be started has been rolled back.
C8_NoOrphanedUserTurn ==
    ~Outstanding =>
        \A k \in Modes : \A i \in 1..Len(history_managers[k].conversations) :
            ~EndsWithUserTurn(history_managers[k].conversations[i])

\* the step is the handling of a submitted user message
IsUserMessageStep == turns' = turns + 1

\* C9: at most one worker is in run() at any time, and a user message
\* handled while the thread of the last worker is still running starts no
\* worker: the request is refused (or append_message raised before it).
C9_OneCompletionAtATime ==
    /\ [](Len(workers) <= 1)
    /\ [][(IsUserMessageStep /\ llm_client /\ worker_thread /\ thread_running)
            => /\ workers' = workers
               /\ last'.raised \in {"refused", "ConversationNotFoundError"}]_vars

C9_Witness ==
    /\ last.op = "_handle_user_message"
    /\ last.raised = "refused"
    /\ worker_thread /\ thread_running
    /\ workers = <<>>

\* conversation i of mode k has just received an assistant message
AssistantAppended(k, i) ==
    /\ i <= Len(history_managers'[k].conversations)
    /\ history_managers'[k].conversations[i].messages # <<>>
    /\ history_managers'[k].conversations[i].messages[
           Len(history_managers'[k].conversations[i].messages)].role = "assistant"
    /\ \A j \in 1..Len(history_managers[k].conversations) :
           history_managers[k].conversations[j].conversation_id
               = history_managers'[k].conversations[i].conversation_id
           => Len(history_managers[k].conversations[j].messages)
                  < Len(history_managers'[k].conversations[i].messages)

\* C10: when a worker is started, the messages it was given end with the
\* user's message and the history file of the active mode already holds the
\* conversation with exactly these messages; and an assistant message is
\* appended only by the handler of a successful completion, when no worker
\* is in run().
C10_TurnOrdering ==
    /\ [][Len(workers') > Len(workers) =>
            /\ workers'[Len(workers')].messages # <<>>
            /\ workers'[Len(workers')].messages[
                   Len(workers'[Len(workers')].messages)] = ChatMessage("user", UserText)
            /\ \E i \in 1..Len(history_managers'[active_mode_key'].file.items) :
                   /\ history_managers'[active_mode_key'].file.items[i].conversation_id
                          = current_conversation_ids'[active_mode_key']
                   /\ history_managers'[active_mode_key'].file.items[i].messages
                          = workers'[Len(workers')].messages]_vars
    /\ [][(\E k \in Modes : \E i \in 1..MaxLen : AssistantAppended(k, i)) =>
            /\ events # <<>> /\ Head(events) = "_handle_llm_success"
            /\ last'.op = "_handle_llm_success"
            /\ workers = <<>>]_vars

C10_Witness ==
    /\ last.op = "_handle_llm_success"
    /\ last.raised = "none"
    /\ \E i \in 1..Len(history_managers[active_mode_key].conversations) :
          LET c == history_managers[active_mode_key].conversations[i]
          IN  /\ c.conversation_id = current_conversation_ids[active_mode_key]
              /\ Len(c.messages) >= 2
              /\ c.messages[Len(c.messages)] = ChatMessage("assistant", Response)
              /\ c.messages[Len(c.messages) - 1] = ChatMessage("user", UserText)


\* ---- further claims about the store
\* C11: a call of get, appendMessage, removeTrailingUserMessage,
\* toggleFavorite or delete with an id the store does not hold raises
\* ConversationNotFoundError, and a call that raises it or
\* FavoriteLimitError leaves the collection and the file as they were.
C11_FailedCallChangesNothing ==
    [][/\ \A id \in Ids :
            (/\ ~Present(id)
             /\ \/ Get(id)
                \/ \E m \in Messages : AppendMessage(id, m)
                \/ RemoveTrailingUserMessage(id)
                \/ ToggleFavorite(id)
                \/ Delete(id))
            => last'.raised = "ConversationNotFoundError"
       /\ (/\ last'.op \in {"get", "append", "remove", "toggle", "delete"}
           /\ last'.raised \in {"ConversationNotFoundError", "FavoriteLimitError"})
          => history_managers' = history_managers
      ]_vars

\* toggleFavorite has just been refused in a store of two conversations
C11_Witness ==
    /\ last = [op |-> "toggle", raised |-> "FavoriteLimitError"]
    /\ Len(store.conversations) = 2
    /\ favorite_count(store.conversations) = max_favorites


\* the file holds exactly the collection S has in memory
Flushed(S) ==
    S.file = JsonArray([i \in 1..Len(S.conversations) |-> to_dict(S.conversations[i])])

\* C12 (as claimed): a toggleFavorite(id) that succeeds flips is_favorite of
\* that conversation, sets its updated_at to the time of the call and leaves
\* it at position 0 of list(); the capacity holds afterwards unless only
\* favorites are left; the file is written; the flag of no other
\* conversation changes.
C12_ToggleFlipsAndPromotes ==
    [][\A id \in Ids :
            (last'.op = "toggle" /\ ToggleFavorite(id) /\ last'.raised = "none")
            => LET c == store.conversations[_find_conversation(store.conversations, id)]
               IN  /\ store'.conversations # <<>>
                   /\ store'.conversations[1] =
                          [c EXCEPT !.is_favorite = ~c.is_favorite, !.updated_at = now]
                   /\ \/ Len(store'.conversations) <= max_conversations
                      \/ NonFavorites(store'.conversations) = {}
                   /\ Flushed(store')
                   /\ \A j \in 2..Len(store'.conversations) :
                         \E k \in 1..Len(store.conversations) :
                            /\ store.conversations[k].conversation_id # id
                            /\ store.conversations[k] = store'.conversations[j]
      ]_vars


\* C13 (as claimed): after upsert has inserted a conversation with a new id
\* into a store that held max_conversations conversations, the collection
\* is no longer than max_conversations, unless only favorites are left.
C13_UpsertEnforcesCapacity ==
    [][\A conversation \in Upserted :
            (/\ last'.op = "upsert"
             /\ Upsert(conversation)
             /\ ~Present(conversation.conversation_id)
             /\ Len(store.conversations) = max_conversations)
            => \/ Len(store'.conversations) <= max_conversations
               \/ NonFavorites(store'.conversations) = {}
      ]_vars

\* C14: upsert(c) puts c in the place of the stored conversation with the
\* id of c, every other conversation staying where it is, or at position 0
\* in front of the others when no stored conversation has that id; the file
\* is written in both cases.
C14_UpsertInPlaceOrAtTop ==
    [][\A conversation \in Upserted :
            (last'.op = "upsert" /\ Upsert(conversation))
            => LET index == _find_conversation(store.conversations,
                                               conversation.conversation_id)
               IN  /\ last'.raised = "none"
                   /\ store'.conversations =
                          IF index # None
                          THEN [store.conversations EXCEPT ![index] = conversation]
                          ELSE <<conversation>> \o store.conversations
                   /\ Flushed(store')
      ]_vars

\* upsert has just replaced a conversation below position 0: the
\* conversation at position 0 is from an earlier second
C14_Witness ==
    /\ last = [op |-> "upsert", raised |-> "none"]
    /\ Len(store.conversations) >= 2
    /\ store.conversations[1].created_at < now
    /\ \E i \in 2..Len(store.conversations) : store.conversations[i].created_at = now

\* C15: after every mutating call that succeeds (create, upsert,
\* appendMessage, toggleFavorite, delete, and removeTrailingUserMessage when
\* it removes) the file holds exactly the collection in memory: the same
\* conversations with the same fields in the same order.
C15_FileMatchesMemory ==
    [][(/\ last'.raised = "none"
        /\ \/ last'.op = "create" /\ Create
           \/ last'.op = "upsert" /\ \E conversation \in Upserted : Upsert(conversation)
           \/ last'.op = "append" /\ \E id \in Ids, m \in Messages : AppendMessage(id, m)
           \/ last'.op = "toggle" /\ \E id \in Ids : ToggleFavorite(id)
           \/ last'.op = "delete" /\ \E id \in Ids : Delete(id)
           \/ /\ last'.op = "remove"
              /\ \E id \in Ids : RemoveTrailingUserMessage(id)
              /\ store'.conversations # store.conversations)
       => Flushed(store')
      ]_vars

\* a removal has left the collection in an order other than that of
\* updated_at, and the file holds it in that very order
C15_Witness ==
    /\ last = [op |-> "remove", raised |-> "none"]
    /\ Flushed(store)
    /\ IdsOf(_load_from_disk(store).conversations) # IdsOf(store.conversations)


\* C16 (as claimed): building a HistoryManager raises nothing, whatever the
\* file holds, and over a file that is missing, empty or not a JSON array
\* of conversation objects the manager starts with an empty collection.
C16_LoadNeverFails ==
    last.op = "load" =>
        /\ last.raised = "none"
        /\ store.file.json # "array" => store.conversations = <<>>


\* C17: delete(id) of a stored conversation, favorite or not, takes it out
\* of the collection and leaves the others as they were and in their order;
\* the file is written, and get(id) then raises ConversationNotFoundError.
C17_DeleteRemovesExactlyOne ==
    [][\A id \in Ids :
            (last'.op = "delete" /\ Delete(id) /\ Present(id))
            => /\ last'.raised = "none"
               /\ store'.conversations =
                      RemoveAt(store.conversations,
                               _find_conversation(store.conversations, id))
               /\ Flushed(store')
               /\ get_conversation(store', id).raised = "ConversationNotFoundError"
      ]_vars

\* delete has just left two of the conversations of a store that held
\* every id there is
C17_Witness ==
    /\ last = [op |-> "delete", raised |-> "none"]
    /\ next_id > MaxIds
    /\ Len(store.conversations) = MaxIds - 1


\* C18: in every state the store operations reach no two conversations of
\* the collection have the same conversation_id, and an operation leaves
\* every conversation it keeps with the id it had: an id that was not in
\* the collection before is the id of the conversation create or upsert
\* has just been given.
C18_UniqueIds ==
    /\ [](\A i, j \in 1..Len(store.conversations) :
            i # j => store.conversations[i].conversation_id
                        # store.conversations[j].conversation_id)
    /\ [][\A j \in 1..Len(store'.conversations) :
               \/ Present(store'.conversations[j].conversation_id)
               \/ /\ last'.op \in {"create", "upsert"}
                  /\ j = 1
                  /\ store'.conversations[j].conversation_id <= next_id
         ]_vars

\* upsert has just replaced the last conversation of a store that is as
\* long as a store gets
C18_Witness ==
    /\ last = [op |-> "upsert", raised |-> "none"]
    /\ Len(store.conversations) = MaxLen
    /\ store.conversations[MaxLen].created_at = now
    /\ store.conversations[1].created_at < now


RunStarts(ms) == {i \in 1..Len(ms) : i = 1 \/ ms[i].role # ms[i - 1].role}

\* the last position of the run that begins at i
RunEnd(ms, i) ==
    CHOOSE j \in i..Len(ms) :
        /\ \A k \in i..j : ms[k].role = ms[i].role
        /\ j = Len(ms) \/ ms[j + 1].role # ms[i].role

\* the contents of ms[i..j], a blank line between each two
RECURSIVE Joined(_, _, _)
Joined(ms, i, j) ==
    IF i = j THEN ms[i].content
    ELSE ms[i].content \o "\n\n" \o Joined(ms, i + 1, j)

\* the position at which the n-th run begins
NthRun(ms, n) ==
    CHOOSE i \in RunStarts(ms) : Cardinality({k \in RunStarts(ms) : k <= i}) = n

\* C20: the normalized list has one turn for each maximal run of adjacent
\* messages of one role, in the order of the runs, with the role of the run
\* and with the contents of the run joined in order by "\n\n";
\* [user:a, user:b, assistant:c] gives [user:"a\n\nb", assistant:c].
C20_RunsCoalesced ==
    llm.pc = "built" =>
        /\ Len(llm.messages) = Cardinality(RunStarts(llm.history))
        /\ \A n \in 1..Len(llm.messages) :
              LET i == NthRun(llm.history, n)
              IN  /\ llm.messages[n].role = llm.history[i].role
                  /\ llm.messages[n].content
                        = Joined(llm.history, i, RunEnd(llm.history, i))
        /\ [i \in 1..Len(llm.history) |-> chat_dict(llm.history[i])]
              = <<[role |-> "user", content |-> "a"],
                  [role |-> "user", content |-> "b"],
                  [role |-> "assistant", content |-> "c"]>>
           => [n \in 1..Len(llm.messages) |-> chat_dict(llm.messages[n])]
                 = <<[role |-> "user", content |-> "a\n\nb"],
                     [role |-> "assistant", content |-> "c"]>>

\* three user messages in a row have become one turn
C20_Witness ==
    /\ llm.pc = "built"
    /\ Len(llm.history) = 3
    /\ \A i \in 1..3 : llm.history[i].role = "user"
    /\ [n \in 1..Len(llm.messages) |-> chat_dict(llm.messages[n])]
          = <<[role |-> "user", content |-> "a\n\nb\n\nc"]>>


\* the dicts of the turns of a list
Dicts(ms) == [i \in 1..Len(ms) |-> chat_dict(ms[i])]

\* C21 (as claimed): with a non-empty instruction S and a coalesced first
\* turn of role user and content C, the first turn of the output is a user
\* turn with content S, a blank line, C, and the other coalesced turns
\* follow as they are.
C21_InstructionJoinsFirstUserTurn ==
    (/\ llm.pc = "built"
     /\ llm.system_prompt # ""
     /\ llm.messages # <<>>
     /\ llm.messages[1].role = "user")
    => llm.chat_messages =
          <<[role |-> "user",
             content |-> llm.system_prompt \o "\n\n" \o llm.messages[1].content]>>
          \o Dicts(Tail(llm.messages))

\* C22: with a non-empty instruction S, an empty history gives [user:S],
\* and a history whose coalesced first turn is the assistant's gives a user
\* turn with content S followed by all coalesced turns as they are.
C22_InstructionAsOwnTurn ==
    (llm.pc = "built" /\ llm.system_prompt # "") =>
        /\ llm.history = <<>> =>
              llm.chat_messages = <<[role |-> "user", content |-> llm.system_prompt]>>
        /\ (llm.messages # <<>> /\ llm.messages[1].role = "assistant") =>
              llm.chat_messages =
                  <<[role |-> "user", content |-> llm.system_prompt]>>
                  \o Dicts(llm.messages)

\* the instruction stands in front of an assistant turn made of two messages
C22_Witness ==
    /\ llm.pc = "built"
    /\ llm.system_prompt = "S"
    /\ Len(llm.history) = 3
    /\ Len(llm.chat_messages) = 3
    /\ llm.chat_messages[2] = [role |-> "assistant", content |-> "a\n\nb"]

\* C23: without an instruction the output is the coalesced history, turn
\* for turn; an empty history gives an empty output.
C23_NoInstructionPassesThrough ==
    (llm.pc = "built" /\ llm.system_prompt = "") =>
        /\ llm.chat_messages = Dicts(llm.messages)
        /\ llm.history = <<>> => llm.chat_messages = <<>>

\* a history with a run of two has been passed on without an instruction
C23_Witness ==
    /\ llm.pc = "built"
    /\ llm.system_prompt = ""
    /\ Len(llm.history) = 3
    /\ Len(llm.chat_messages) = 2
    /\ llm.chat_messages[1] = [role |-> "user", content |-> "a\n\nb"]

\* C27: no two adjacent turns of the output have the same role, and with a
\* non-empty instruction the output is not empty and begins with a user turn.
C27_TurnsAlternate ==
    llm.pc = "built" =>
        /\ \A i \in 1..(Len(llm.chat_messages) - 1) :
              llm.chat_messages[i].role # llm.chat_messages[i + 1].role
        /\ llm.system_prompt # "" =>
              /\ llm.chat_messages # <<>>
              /\ llm.chat_messages[1].role = "user"

\* the instruction has been joined to a user turn made of two messages
C27_Witness ==
    /\ llm.pc = "built"
    /\ llm.system_prompt = "S"
    /\ Len(llm.history) = 3
    /\ Len(llm.chat_messages) = 2
    /\ llm.chat_messages[1] = [role |-> "user", content |-> "S\n\na\n\nb"]


\* C24: building the prompt leaves the messages it was given as they were
\* (as many, each with its role, content and created_at), and building
\* again from them gives the same output.
C24_InputsNotMutated ==
    [][(llm.pc = "called" /\ llm'.pc = "built") =>
            /\ llm'.history = llm.history
            /\ _build_prompt(llm'.history, llm'.system_prompt) = llm'.chat_messages
      ]_vars

\* a prompt has been built from a history with a run of three
C24_Witness ==
    /\ llm.pc = "built"
    /\ Len(llm.history) = 3
    /\ Len(llm.messages) = 1
    /\ llm.history[1].content = "a"
    /\ llm.messages[1].content = "a\n\nb\n\nc"
    /\ llm.system_prompt = "S"


\* C25: promoting the first conversation changes nothing; promoting any
\* other one puts it first and keeps the others in the order they had, with
\* the same conversations and as many of them.  Stated of _promote_to_top
\* on every list the store gets to, and of the list a successful
\* append_message leaves.
C25_PromotionStable ==
    /\ [](\A i \in 1..Len(store.conversations) :
            LET promoted == _promote_to_top(store.conversations, i)
            IN  /\ i = 1 => promoted = store.conversations
                /\ Len(promoted) = Len(store.conversations)
                /\ promoted[1] = store.conversations[i]
                /\ RemoveAt(promoted, 1) = RemoveAt(store.conversations, i))
    /\ [][\A id \in Ids, m \in Messages :
            (last'.op = "append" /\ AppendMessage(id, m) /\ Present(id))
            => LET i == _find_conversation(store.conversations, id)
                   before == IdsOf(store.conversations)
                   after == IdsOf(store'.conversations)
               IN  /\ i = 1 => after = before
                   /\ Len(after) = Len(before)
                   /\ after[1] = id
                   /\ RemoveAt(after, 1) = RemoveAt(before, i)
         ]_vars

\* append_message has moved the last of three conversations to the front
C25_Witness ==
    /\ last = [op |-> "append", raised |-> "none"]
    /\ IdsOf(store.conversations) = <<1, 3, 2>>
    /\ store.conversations[1].messages # <<>>


\* what one step may do to the messages of a conversation the store keeps:
\* nothing, one message more at the end by append_message, or the last
\* message less by remove_trailing_user_message when it is a user message
MessagesKept(before, after) ==
    \/ after.messages = before.messages
    \/ /\ last'.op = "append"
       /\ \E m \in Messages : after.messages = Append(before.messages, m)
    \/ /\ last'.op = "remove"
       /\ before.messages # <<>>
       /\ before.messages[Len(before.messages)].role = "user"
       /\ after.messages = SubSeq(before.messages, 1, Len(before.messages) - 1)

\* C26 (as stated): over any store operations the messages of a
\* conversation change only by one message appended at the end or by the
\* last message removed when it is a user message.
C26_MessagesOnlyAppendedOrPopped ==
    [][\A j \in 1..Len(store'.conversations) :
            LET after == store'.conversations[j]
                k == _find_conversation(store.conversations, after.conversation_id)
            IN  k # None => MessagesKept(store.conversations[k], after)
      ]_vars

\* C26 (amended): the same, for every operation but upsert_conversation,
\* which puts the conversation it is given in the place of the stored one.
C26_MessagesOnlyAppendedPoppedOrReplaced ==
    [][\A j \in 1..Len(store'.conversations) :
            LET after == store'.conversations[j]
                k == _find_conversation(store.conversations, after.conversation_id)
            IN  k # None =>
                    \/ MessagesKept(store.conversations[k], after)
                    \/ /\ last'.op = "upsert"
                       /\ after \in Upserted
                       /\ Upsert(after)
      ]_vars

\* the user message after an assistant message has been removed
C26_Witness ==
    /\ last = [op |-> "remove", raised |-> "none"]
    /\ \E i \in 1..Len(store.conversations) :
          /\ store.conversations[i].messages = <<ChatMessage("assistant", "hi")>>
          /\ store.conversations[i].updated_at > store.conversations[i].created_at


\* C28: after a toggle_favorite(id) that succeeds the conversation is still
\* in the store (get_conversation(id) succeeds), also when it has just lost
\* its favorite flag in a store longer than max_conversations.
C28_ToggledStaysInStore ==
    [][\A id \in Ids :
            (last'.op = "toggle" /\ ToggleFavorite(id) /\ last'.raised = "none")
            => get_conversation(store', id).raised = "none"
      ]_vars


\* C29: the active conversation id of the active mode names a conversation
\* that mode's store holds, so that the append_message for a submitted user
\* message never ends in ConversationNotFoundError.
C29_ActiveConversationInStore ==
    LET conversation_id == current_conversation_ids[active_mode_key]
    IN  /\ conversation_id # None =>
              _find_conversation(history_managers[active_mode_key].conversations,
                                 conversation_id) # None
        /\ last # [op |-> "_handle_user_message",
                   raised |-> "ConversationNotFoundError"]


\* the messages of the active conversation of the active mode (<<>> when the
\* store does not hold it)
ActiveMessages ==
    LET cs == history_managers[active_mode_key].conversations
        i == _find_conversation(cs, current_conversation_ids[active_mode_key])
    IN  IF i = None THEN <<>> ELSE cs[i].messages

\* C30: from the start of a worker to the handling of its result the window
\* is busy, the active mode and the active conversation id stay as they
\* are and no store changes, so that the conversation the worker's messages
\* were taken from is the one that gets the reply appended, or loses the
\* user message when the completion failed.
C30_ReplyGoesToRequestingConversation ==
    /\ [](Outstanding => busy /\ EndsWithUserTurn([messages |-> ActiveMessages]))
    /\ [](workers # <<>> => workers[1].messages = ActiveMessages)
    /\ [][Outstanding =>
            /\ active_mode_key' = active_mode_key
            /\ current_conversation_ids' = current_conversation_ids
            /\ \/ history_managers' = history_managers
               \/ /\ events # <<>>
                  /\ last'.op = Head(events)
                  /\ events' = Tail(events)
                  /\ ~busy'
                  /\ \A k \in Modes \ {active_mode_key} :
                        history_managers'[k] = history_managers[k]
                  /\ Head(events) = "_handle_llm_success"
                        => ActiveMessages' =
                              Append(ActiveMessages, ChatMessage("assistant", Response))
                  /\ Head(events) = "_handle_llm_failure"
                        => ActiveMessages' =
                              SubSeq(ActiveMessages, 1, Len(ActiveMessages) - 1)
      ]_vars

\* in the mode chosen after start-up, the second reply has been appended to
\* the conversation that already holds the first exchange
C30_Witness ==
    /\ last = [op |-> "_handle_llm_success", raised |-> "none"]
    /\ active_mode_key # default_mode_key
    /\ ~busy
    /\ ActiveMessages = <<ChatMessage("user", UserText), ChatMessage("assistant", Response),
                          ChatMessage("user", UserText), ChatMessage("assistant", Response)>>
    /\ \A i \in 1..Len(history_managers[default_mode_key].conversations) :
          history_managers[default_mode_key].conversations[i].messages = <<>>


\* C31: the busy state a submitted user message sets is always cleared
\* again, on every path (no client, request refused, success, failure),
\* given that a started completion ends and queued signals are delivered.
C31_BusyEventuallyCleared == busy ~> ~busy

====
